---- MODULE Spec2Model ----
(***************************************************************************)
(* AsyncMongoDBDataStore (apscheduler/datastores/async_mongodb.py).        *)
(*                                                                         *)
(* The store is four MongoDB collections (tasks, schedules, jobs,          *)
(* job_results).  A collection is a function from the _id of every stored  *)
(* document to the document.  Schedulers and workers are independent       *)
(* processes that share nothing but the store: an operation that makes     *)
(* several awaits on the store is a sequence of steps, one per store call, *)
(* and steps of different processes interleave.  start_session() opens a   *)
(* session, not a transaction, so it adds no atomicity.                    *)
(*                                                                         *)
(* Time is a counter (now) advanced by Tick; datetime.now() reads it.  A   *)
(* clock read is a step of its own where the code reads the clock apart    *)
(* from the store call it serves: the filter of a find is built before the *)
(* find is awaited (acquire_schedules reads the clock twice for it), the   *)
(* lease clock is read when the find has answered.                         *)
(*                                                                         *)
(* Every step leaves its outputs in events (the schedule events it hands   *)
(* to the event broker) and raised (the exception its caller gets).  Task  *)
(* and job events are not modelled.                                        *)
(***************************************************************************)
EXTENDS Integers, Sequences, FiniteSets, TLC

\* ------------------------------------------------------------------ bounds
MaxTime == 3
MaxFire == 0
MaxJobs == 2
MaxLimit == 2
MaxCap == 1
\* a per-job lock_expiration_delay that is longer than the store's
LongDelay == 2
\* the race of two acquire_jobs rounds: the task's limit, and its pending jobs
RaceCap == 2
RaceJobs == 4
\* the latest next_fire_time of the schedules of ScheduleSeqSpec
MaxDue == 1

\* the default lease duration of the store (self.lock_expiration_delay)
LockExpirationDelay == 1

\* Python's None, for a nullable time or number; a field a document lacks
\* ($exists: False) reads as None too: marshal() drops unset lease fields.
None == -1
\* None for an owner id (acquired_by)
NoOwner == "None"
\* a call that returns normally
NoError == "NoError"

Schedulers == {"A", "B"}
\* a second process that calls the store with scheduler A's id
SecondA == "A2"
\* the scheduler_id a process passes to the store
SchedulerId(s) == IF s = SecondA THEN "A" ELSE s
Workers == {"W1", "W2"}
TaskIds == {"T1", "T2"}
ScheduleIds == {"S1", "S2"}
JobIds == 1..MaxJobs
FireTimes == 0..MaxFire
Limits == 1..MaxLimit
DueTimes == 0..MaxDue
Caps == {None} \cup (1..MaxCap)

\* a trigger is "t1" when the schedule is added and "t2" when the scheduler
\* has advanced it; BadTrigger is one the serializer rejects
BadTrigger == "bad"

VARIABLES
    now,            \* datetime.now(timezone.utc)
    tasks,          \* collection tasks:       _id -> [max_running_jobs, running_jobs]
    schedules,      \* collection schedules:   _id -> [next_fire_time, trigger, acquired_by, acquired_until]
    jobs,           \* collection jobs:        _id -> [task_id, created_at, acquired_by, acquired_until]
    job_results,    \* collection job_results: the _ids (job ids) that have a stored result
    sch,            \* each scheduler's position in its current operation, and its locals
    wrk,            \* each worker's position in its current operation, and its locals
    results_read,   \* per job id, how many get_job_result calls returned a result (capped at 2)
    job_seq,        \* the number of jobs created so far (job ids are fresh)
    events,         \* the schedule events the latest step handed to the event broker
    raised          \* the exception the latest step raised to its caller (NoError: none)

vars == <<now, tasks, schedules, jobs, job_results, sch, wrk, results_read, job_seq,
          events, raised>>
schedule_vars == <<schedules, sch>>
job_vars == <<tasks, jobs, job_results, wrk, results_read, job_seq>>

\* ------------------------------------------------------------------ helpers
Range(q) == {q[i] : i \in 1..Len(q)}

Min(a, b) == IF a < b THEN a ELSE b

\* a step that publishes no schedule event and raises nothing
Quiet == events' = <<>> /\ raised' = NoError

\* The sequences a find with sort(key) and limit(n) may yield over the
\* documents ids (key maps an id to the sort field of its document): the n
\* first by key; documents with equal keys come in any order.
SortLimit(ids, key, n) ==
    LET m == Min(n, Cardinality(ids))
    IN {q \in [1..m -> ids] :
            /\ \A i, j \in 1..m : i < j => q[i] # q[j] /\ key[q[i]] <= key[q[j]]
            /\ \A x \in ids \ Range(q) : \A i \in 1..m : key[q[i]] <= key[x]}

\* {"acquired_until": {"$exists": False}} or {"acquired_until": {"$lt": now}}
Unleased(doc, t) == doc.acquired_until = None \/ doc.acquired_until < t

\* ------------------------------------------------------------------ schedules
\* the serializer applied to a trigger (SerializationError for BadTrigger)
Serializable(trigger) == trigger # BadTrigger
Serialize(trigger) == <<"serialized", trigger>>

\* Schedule.marshal(): the document of a schedule that holds no lease
ScheduleDocument(next_fire_time, trigger) ==
    [next_fire_time |-> next_fire_time, trigger |-> Serialize(trigger),
     acquired_by |-> NoOwner, acquired_until |-> None]

\* a scheduler that is in no call: t_fire and t_lease are the two clock reads
\* of the filter of acquire_schedules' find (for next_fire_time and for
\* acquired_until), t0 the clock read for the lease
IdleScheduler == [pc |-> "idle", held |-> <<>>, requests |-> <<>>, i |-> 0,
                  document |-> <<>>, t_fire |-> None, t_lease |-> None, limit |-> 0,
                  t0 |-> None, ids |-> {}, found |-> <<>>]

\* the schedule events, as the store builds them
ScheduleAdded(schedule_id, next_fire_time) ==
    [type |-> "ScheduleAdded", schedule_id |-> schedule_id,
     next_fire_time |-> next_fire_time]

\* (mutant) an "updated" event that leaves the due time out
ScheduleUpdatedBlank(schedule_id, next_fire_time) ==
    [type |-> "ScheduleUpdated", schedule_id |-> schedule_id, next_fire_time |-> None]

ScheduleUpdated(schedule_id, next_fire_time) ==
    [type |-> "ScheduleUpdated", schedule_id |-> schedule_id,
     next_fire_time |-> next_fire_time]

ScheduleRemoved(schedule_id) ==
    [type |-> "ScheduleRemoved", schedule_id |-> schedule_id, next_fire_time |-> None]

\* add_schedule(schedule, conflict_policy), called by scheduler s
ConflictPolicies == {"replace", "do_nothing", "exception"}

\* (mutant) a conflict that is never reported
ConflictErrorNever(conflict_policy) == NoError

\* what the DuplicateKeyError of the insert becomes for the caller
ConflictError(conflict_policy) ==
    IF conflict_policy = "exception" THEN "ConflictingIdError" ELSE NoError

\* the insert_one of the document.  Without a conflict the "added" event is
\* published; on DuplicateKeyError the caller gets ConflictingIdError
\* (exception), the replace_one follows (replace), or the call just returns
add_schedule(s, id, next_fire_time, trigger, conflict_policy) ==
    /\ sch[s].pc = "idle"
    /\ IF id \notin DOMAIN schedules
       THEN /\ schedules' = [x \in DOMAIN schedules \cup {id} |->
                                IF x = id THEN ScheduleDocument(next_fire_time, trigger)
                                ELSE schedules[x]]
            /\ events' = <<ScheduleAdded(id, next_fire_time)>>
            /\ raised' = NoError
            /\ UNCHANGED sch
       ELSE /\ UNCHANGED schedules
            /\ events' = <<>>
            /\ raised' = ConflictError(conflict_policy)
            /\ sch' = IF conflict_policy = "replace"
                      THEN [sch EXCEPT ![s].pc = "replace_one",
                                       ![s].document = <<[id |-> id,
                                            next_fire_time |-> next_fire_time,
                                            trigger |-> trigger]>>]
                      ELSE sch
    /\ UNCHANGED <<now, job_vars>>

\* replace_one({"_id": schedule.id}, document, upsert=True), and the "updated"
\* event
add_schedule_replace_one(s) ==
    /\ sch[s].pc = "replace_one"
    /\ LET schedule == sch[s].document[1]
       IN /\ schedules' = [x \in DOMAIN schedules \cup {schedule.id} |->
                              IF x = schedule.id
                              THEN ScheduleDocument(schedule.next_fire_time, schedule.trigger)
                              ELSE schedules[x]]
          /\ events' = <<ScheduleUpdated(schedule.id, schedule.next_fire_time)>>
    /\ raised' = NoError
    /\ sch' = [sch EXCEPT ![s].pc = "idle", ![s].document = <<>>]
    /\ UNCHANGED <<now, job_vars>>

\* (mutant) a find filter that leaves the lease out
ScheduleDueAnyLease(doc, t_fire, t_lease) ==
    /\ doc.next_fire_time # None
    /\ doc.next_fire_time < t_fire

\* the filter of acquire_schedules' find: next_fire_time is compared with
\* the first clock read, acquired_until with the second
ScheduleDue(doc, t_fire, t_lease) ==
    /\ doc.next_fire_time # None
    /\ doc.next_fire_time < t_fire
    /\ Unleased(doc, t_lease)

\* the find of acquire_schedules: the schedules its filter (built with the
\* clock reads t_fire and t_lease) matches, sorted by next_fire_time, cut at
\* limit (the call's result, as the ids of the schedules)
FindSchedules(t_fire, t_lease, limit) ==
    LET due == {x \in DOMAIN schedules : ScheduleDue(schedules[x], t_fire, t_lease)}
        key == [x \in due |-> schedules[x].next_fire_time]
    IN SortLimit(due, key, limit)

\* acquire_schedules(scheduler_id, limit): the filter of the find is built
\* before the cursor is awaited, with two reads of the clock.  The first, for
\* next_fire_time:
acquire_schedules_begin(s, limit) ==
    /\ sch[s].pc = "idle"
    /\ sch' = [sch EXCEPT ![s] = [IdleScheduler EXCEPT
                  !.pc = "acquire_filter", !.t_fire = now, !.limit = limit]]
    /\ UNCHANGED <<now, schedules, job_vars>>
    /\ Quiet

\* the second read of the clock, for acquired_until
acquire_schedules_filter(s) ==
    /\ sch[s].pc = "acquire_filter"
    /\ sch' = [sch EXCEPT ![s].pc = "acquire_find", ![s].t_lease = now]
    /\ UNCHANGED <<now, schedules, job_vars>>
    /\ Quiet

\* the store applies the find; without a schedule found the call returns
acquire_schedules_find(s) ==
    /\ sch[s].pc = "acquire_find"
    /\ \E found \in FindSchedules(sch[s].t_fire, sch[s].t_lease, sch[s].limit) :
          sch' = [sch EXCEPT ![s] = [IdleScheduler EXCEPT
                      !.pc = IF found = <<>> THEN "idle" ELSE "acquire_now",
                      !.held = found]]
    /\ UNCHANGED <<now, schedules, job_vars>>
    /\ Quiet

\* the cursor is exhausted: the clock is read for the lease, and the
\* update_many is sent
acquire_schedules_now(s) ==
    /\ sch[s].pc = "acquire_now"
    /\ sch' = [sch EXCEPT ![s].pc = "acquire_update", ![s].t0 = now]
    /\ UNCHANGED <<now, schedules, job_vars>>
    /\ Quiet

\* the filter of acquire_schedules' update_many
AcquireFilter(doc_id, doc, ids, t) == doc_id \in ids

\* the update_many that stamps the schedules found, and the return
acquire_schedules_update(s) ==
    /\ sch[s].pc = "acquire_update"
    /\ LET ids == Range(sch[s].held)
       IN schedules' = [x \in DOMAIN schedules |->
                IF AcquireFilter(x, schedules[x], ids, sch[s].t0)
                THEN [schedules[x] EXCEPT !.acquired_by = SchedulerId(s),
                                          !.acquired_until = sch[s].t0 + LockExpirationDelay]
                ELSE schedules[x]]
    /\ sch' = [sch EXCEPT ![s].pc = "idle", ![s].t0 = None]
    /\ UNCHANGED <<now, job_vars>>
    /\ Quiet

\* remove_schedules(ids): the find of the stored ids among ids (in any
\* order); with none found the call returns
remove_schedules_find(s, ids) ==
    /\ sch[s].pc = "idle"
    /\ LET stored == ids \cap DOMAIN schedules
       IN \E found \in SortLimit(stored, [x \in stored |-> 0], Cardinality(stored)) :
             sch' = [sch EXCEPT ![s].pc = IF found = <<>> THEN "idle" ELSE "delete_many",
                                ![s].ids = IF found = <<>> THEN {} ELSE ids,
                                ![s].found = found]
    /\ UNCHANGED <<now, schedules, job_vars>>
    /\ Quiet

\* delete_many(filters), with the filter of the find, and a "removed" event
\* for every id the find returned
remove_schedules_delete_many(s) ==
    /\ sch[s].pc = "delete_many"
    /\ schedules' = [x \in DOMAIN schedules \ sch[s].ids |-> schedules[x]]
    /\ events' = [k \in 1..Len(sch[s].found) |-> ScheduleRemoved(sch[s].found[k])]
    /\ raised' = NoError
    /\ sch' = [sch EXCEPT ![s].pc = "idle", ![s].ids = {}, ![s].found = <<>>]
    /\ UNCHANGED <<now, job_vars>>

\* (mutant) a release filter that leaves the owner out
ReleaseFilterById(doc_id, doc, id, scheduler_id) == doc_id = id

\* the filter of every request of release_schedules
ReleaseFilter(doc_id, doc, id, scheduler_id) ==
    doc_id = id /\ doc.acquired_by = scheduler_id

\* the request release_schedules appends for one schedule
ReleaseRequest(schedule) ==
    IF schedule.next_fire_time # None /\ Serializable(schedule.trigger)
    THEN [op |-> "UpdateOne", id |-> schedule.id,
          next_fire_time |-> schedule.next_fire_time,
          trigger |-> Serialize(schedule.trigger)]
    ELSE [op |-> "DeleteOne", id |-> schedule.id,
          next_fire_time |-> None, trigger |-> <<>>]

\* the "continue" of the except branch: a schedule with a next_fire_time
\* whose trigger does not serialize ends its turn before the bulk_write
SkipsWrite(schedule) ==
    schedule.next_fire_time # None /\ ~Serializable(schedule.trigger)

\* bulk_write(requests) by scheduler_id applied to the collection coll; the
\* requests of one call address distinct ids
BulkWrite(coll, requests, scheduler_id) ==
    LET hit(x) == {r \in Range(requests) : ReleaseFilter(x, coll[x], r.id, scheduler_id)}
        deleted == {x \in DOMAIN coll : \E r \in hit(x) : r.op = "DeleteOne"}
    IN [x \in DOMAIN coll \ deleted |->
            IF hit(x) = {} THEN coll[x]
            ELSE LET r == CHOOSE r \in hit(x) : TRUE
                 IN [next_fire_time |-> r.next_fire_time, trigger |-> r.trigger,
                     acquired_by |-> NoOwner, acquired_until |-> None]]

\* release_schedules(s, schedules): the scheduler passes the schedules it was
\* returned (held).  The next fire time and the trigger it computed for a
\* schedule are read when the loop reaches the schedule.
release_schedules_begin(s) ==
    /\ sch[s].pc = "idle"
    /\ sch[s].held # <<>>
    /\ sch' = [sch EXCEPT ![s].pc = "release", ![s].i = 1]
    /\ UNCHANGED <<now, schedules, job_vars>>
    /\ Quiet

\* the events release_schedules publishes after the loop: an "updated" event
\* for every schedule of updated_schedules, then a "removed" event for every
\* one of finished_schedule_ids (both lists grow with the requests)
ReleaseEvents(requests) ==
    LET updated == SelectSeq(requests, LAMBDA r : r.op = "UpdateOne")
        finished == SelectSeq(requests, LAMBDA r : r.op = "DeleteOne")
    IN [k \in 1..Len(updated) |-> ScheduleUpdated(updated[k].id, updated[k].next_fire_time)]
       \o [k \in 1..Len(finished) |-> ScheduleRemoved(finished[k].id)]

\* one turn of the loop: the request of schedule i joins the requests, and
\* unless the turn ends early (SkipsWrite) the requests gathered so far are
\* written (the bulk_write is inside the loop); after the last turn the
\* events are published
release_schedules_bulk_write(s, next_fire_time, trigger) ==
    /\ sch[s].pc = "release"
    /\ LET i == sch[s].i
           schedule == [id |-> sch[s].held[i], next_fire_time |-> next_fire_time,
                        trigger |-> trigger]
           requests == Append(sch[s].requests, ReleaseRequest(schedule))
       IN /\ schedules' = IF SkipsWrite(schedule) THEN schedules
                         ELSE BulkWrite(schedules, requests, SchedulerId(s))
          /\ sch' = [sch EXCEPT ![s] = IF i = Len(sch[s].held) THEN IdleScheduler
                                       ELSE [sch[s] EXCEPT !.i = i + 1,
                                                           !.requests = requests]]
          /\ events' = IF i = Len(sch[s].held) THEN ReleaseEvents(requests) ELSE <<>>
    /\ raised' = NoError
    /\ UNCHANGED <<now, job_vars>>

\* ------------------------------------------------------------------ tasks and jobs
\* add_task(task): an upsert; $set writes the task's own fields, and
\* $setOnInsert starts running_jobs at 0 on the first insertion only
add_task(task_id, max_running_jobs) ==
    /\ tasks' = [t \in DOMAIN tasks \cup {task_id} |->
                    IF t # task_id THEN tasks[t]
                    ELSE [max_running_jobs |-> max_running_jobs,
                          running_jobs |-> IF t \in DOMAIN tasks
                                           THEN tasks[t].running_jobs ELSE 0]]
    /\ UNCHANGED <<now, schedule_vars, jobs, job_results, wrk, results_read, job_seq>>
    /\ Quiet

\* remove_task(task_id): find_one_and_delete; TaskLookupError when no task
\* has the id
remove_task(task_id) ==
    /\ IF task_id \in DOMAIN tasks
       THEN /\ tasks' = [t \in DOMAIN tasks \ {task_id} |-> tasks[t]]
            /\ raised' = NoError
       ELSE /\ UNCHANGED tasks
            /\ raised' = "TaskLookupError"
    /\ events' = <<>>
    /\ UNCHANGED <<now, schedule_vars, jobs, job_results, wrk, results_read, job_seq>>

\* add_job(job): the job has a fresh id (a uuid) and holds no lease.  Jobs are
\* created one after the other, so created_at is the job's rank in the order
\* of creation (a finer clock than now, which the leases are measured in).
add_job(task_id, lock_expiration_delay) ==
    /\ job_seq < MaxJobs
    /\ job_seq' = job_seq + 1
    /\ jobs' = [j \in DOMAIN jobs \cup {job_seq + 1} |->
                   IF j \in DOMAIN jobs THEN jobs[j]
                   ELSE [task_id |-> task_id, created_at |-> job_seq + 1,
                         lock_expiration_delay |-> lock_expiration_delay,
                         acquired_by |-> NoOwner, acquired_until |-> None,
                         started_at |-> None]]
    /\ UNCHANGED <<now, schedule_vars, tasks, job_results, wrk, results_read>>
    /\ Quiet

\* a worker that is in no call: tq is the clock read for the query of the
\* jobs find, job_slots_left the answer of the tasks find, t0 the clock read
\* for the lease
IdleWorker == [pc |-> "idle", held |-> {}, ret |-> <<>>, tq |-> None, limit |-> 0,
               ignored_tasks |-> {}, docs |-> <<>>, job_slots_left |-> <<>>,
               acquired_jobs |-> <<>>, i |-> 0, t0 |-> None, result |-> <<>>]

\* the query of acquire_jobs' find
JobQuery(doc, t, ignored_tasks) ==
    /\ Unleased(doc, t)
    /\ doc.task_id \notin ignored_tasks

\* (mutant) a find that sorts by created_at, descending
FindJobsNewestFirst(coll, t, limit, ignored_tasks) ==
    LET found == {j \in DOMAIN coll : JobQuery(coll[j], t, ignored_tasks)}
        key == [j \in found |-> 0 - coll[j].created_at]
    IN SortLimit(found, key, limit)

\* the find of acquire_jobs: the documents that match, sorted by created_at,
\* cut at limit
FindJobs(coll, t, limit, ignored_tasks) ==
    LET found == {j \in DOMAIN coll : JobQuery(coll[j], t, ignored_tasks)}
        key == [j \in found |-> coll[j].created_at]
    IN SortLimit(found, key, limit)

\* the documents of the ids q, as acquire_jobs keeps them
Documents(coll, q) ==
    [i \in 1..Len(q) |-> [id |-> q[i], task_id |-> coll[q[i]].task_id,
                          lock_expiration_delay |-> coll[q[i]].lock_expiration_delay]]

\* (mutant) slots that leave the running jobs out
JobSlotsLeftOfCap(tsk, documents) ==
    LET task_ids == {documents[i].task_id : i \in 1..Len(documents)}
    IN [t \in {t \in task_ids \cap DOMAIN tsk : tsk[t].max_running_jobs # None} |->
            tsk[t].max_running_jobs]

\* job_slots_left: for every task of the documents that has a limit,
\* max_running_jobs - running_jobs
JobSlotsLeft(tsk, documents) ==
    LET task_ids == {documents[i].task_id : i \in 1..Len(documents)}
    IN [t \in {t \in task_ids \cap DOMAIN tsk : tsk[t].max_running_jobs # None} |->
            tsk[t].max_running_jobs - tsk[t].running_jobs]

\* "if slots_left == 0: continue"
NoFreeSlot(slots_left) == slots_left = 0

\* the loop that filters out the jobs without a free slot: acquired_jobs
RECURSIVE AcquiredJobs(_, _)
AcquiredJobs(documents, job_slots_left) ==
    IF documents = <<>> THEN <<>>
    ELSE LET job == Head(documents)
             limited == job.task_id \in DOMAIN job_slots_left
         IN IF limited /\ NoFreeSlot(job_slots_left[job.task_id])
            THEN AcquiredJobs(Tail(documents), job_slots_left)
            ELSE <<job>> \o AcquiredJobs(Tail(documents),
                    IF limited THEN [job_slots_left EXCEPT ![job.task_id] = @ - 1]
                    ELSE job_slots_left)

\* increments: per task, the number of its jobs among acquired_jobs, in the
\* order the dict got its keys
RECURSIVE Increments(_)
Increments(acquired_jobs) ==
    IF acquired_jobs = <<>> THEN <<>>
    ELSE LET t == Head(acquired_jobs).task_id
             same == SelectSeq(acquired_jobs, LAMBDA job : job.task_id = t)
             rest == SelectSeq(acquired_jobs, LAMBDA job : job.task_id # t)
         IN <<[task_id |-> t, increment |-> Len(same)]>> \o Increments(rest)

\* job.lock_expiration_delay or self.lock_expiration_delay
LeaseDelay(job) ==
    IF job.lock_expiration_delay \in {None, 0} THEN LockExpirationDelay
    ELSE job.lock_expiration_delay

\* the filter of the find_one_and_update that stamps a job
StampFilter(doc_id, doc, job, t) == doc_id = job.id

\* find_one_and_update({"_id": job.id}, $set acquired_by, acquired_until, started_at)
StampJob(coll, job, worker_id, t) ==
    [j \in DOMAIN coll |->
        IF StampFilter(j, coll[j], job, t)
        THEN [coll[j] EXCEPT !.acquired_by = worker_id,
                             !.acquired_until = t + LeaseDelay(job),
                             !.started_at = t]
        ELSE coll[j]]

\* find_one_and_update({"_id": task_id}, {"$inc": {"running_jobs": n}})
IncRunningJobs(tsk, task_id, n) ==
    [t \in DOMAIN tsk |->
        IF t = task_id THEN [tsk[t] EXCEPT !.running_jobs = @ + n] ELSE tsk[t]]

JobIdsOf(q) == [i \in 1..Len(q) |-> q[i].id]
HeldJobs(q) == {[id |-> q[i].id, task_id |-> q[i].task_id] : i \in 1..Len(q)}

\* acquire_jobs(worker_id, limit, ignored_tasks), one store call at a time.
\* The query of the jobs find is built, with the clock as it is then, before
\* the cursor is awaited:
acquire_jobs_begin(w, limit, ignored_tasks) ==
    /\ wrk[w].pc = "idle"
    /\ wrk' = [wrk EXCEPT ![w].pc = "find", ![w].ret = <<>>, ![w].tq = now,
                          ![w].limit = limit, ![w].ignored_tasks = ignored_tasks]
    /\ UNCHANGED <<now, schedule_vars, tasks, jobs, job_results, results_read, job_seq>>
    /\ Quiet

\* the store applies the jobs find
acquire_jobs_find(w) ==
    /\ wrk[w].pc = "find"
    /\ \E q \in FindJobs(jobs, wrk[w].tq, wrk[w].limit, wrk[w].ignored_tasks) :
          wrk' = [wrk EXCEPT ![w].pc = "task_limits", ![w].tq = None, ![w].limit = 0,
                             ![w].ignored_tasks = {}, ![w].docs = Documents(jobs, q)]
    /\ UNCHANGED <<now, schedule_vars, tasks, jobs, job_results, results_read, job_seq>>
    /\ Quiet

\* the store applies the find of the task limits
acquire_jobs_task_limits(w) ==
    /\ wrk[w].pc = "task_limits"
    /\ wrk' = [wrk EXCEPT ![w].pc = "filter",
                          ![w].job_slots_left = JobSlotsLeft(tasks, wrk[w].docs)]
    /\ UNCHANGED <<now, schedule_vars, tasks, jobs, job_results, results_read, job_seq>>
    /\ Quiet

\* the task limits are back: the filter loop; with nothing acquired the call
\* returns, and otherwise the clock is read for the leases
acquire_jobs_filter(w) ==
    /\ wrk[w].pc = "filter"
    /\ LET acquired == AcquiredJobs(wrk[w].docs, wrk[w].job_slots_left)
       IN wrk' = [wrk EXCEPT ![w] =
                    IF acquired = <<>> THEN [IdleWorker EXCEPT !.held = wrk[w].held]
                    ELSE [wrk[w] EXCEPT !.pc = "stamp", !.docs = <<>>,
                                        !.job_slots_left = <<>>,
                                        !.acquired_jobs = acquired, !.i = 1, !.t0 = now]]
    /\ UNCHANGED <<now, schedule_vars, tasks, jobs, job_results, results_read, job_seq>>
    /\ Quiet

\* the find_one_and_update of the i-th acquired job
acquire_jobs_stamp(w) ==
    /\ wrk[w].pc = "stamp"
    /\ LET i == wrk[w].i
       IN /\ jobs' = StampJob(jobs, wrk[w].acquired_jobs[i], w, wrk[w].t0)
          /\ wrk' = [wrk EXCEPT ![w].i = IF i = Len(wrk[w].acquired_jobs) THEN 1 ELSE i + 1,
                                ![w].pc = IF i = Len(wrk[w].acquired_jobs)
                                          THEN "increment" ELSE "stamp"]
    /\ UNCHANGED <<now, schedule_vars, tasks, job_results, results_read, job_seq>>
    /\ Quiet

\* the find_one_and_update of the i-th task of increments; after the last one
\* the call returns acquired_jobs
acquire_jobs_increment(w) ==
    /\ wrk[w].pc = "increment"
    /\ LET i == wrk[w].i
           increments == Increments(wrk[w].acquired_jobs)
       IN /\ tasks' = IncRunningJobs(tasks, increments[i].task_id, increments[i].increment)
          /\ wrk' = [wrk EXCEPT ![w] =
                        IF i = Len(increments)
                        THEN [IdleWorker EXCEPT
                                !.held = wrk[w].held \cup HeldJobs(wrk[w].acquired_jobs),
                                !.ret = JobIdsOf(wrk[w].acquired_jobs)]
                        ELSE [wrk[w] EXCEPT !.i = i + 1]]
    /\ UNCHANGED <<now, schedule_vars, jobs, job_results, results_read, job_seq>>
    /\ Quiet

\* the filter of release_job's delete_one
DeleteFilter(doc_id, doc, job_id, worker_id) == doc_id = job_id

\* release_job's delete_one
DeleteJob(coll, job_id, worker_id) ==
    [j \in {j \in DOMAIN coll : ~DeleteFilter(j, coll[j], job_id, worker_id)} |-> coll[j]]

\* (mutant) a decrement whatever the delete did
DecrementDueAlways(deleted_count) == TRUE

\* "if delete_result.deleted_count > 0"
DecrementDue(deleted_count) == deleted_count > 0

\* release_job(worker_id, task_id, result), one store call at a time, for a
\* job the worker was returned; persist is result.expires_at >
\* result.finished_at.  The insert_one of the result (a DuplicateKeyError is
\* logged and swallowed):
release_job_insert_result(w, job, persist) ==
    /\ wrk[w].pc = "idle"
    /\ job \in wrk[w].held
    /\ job_results' = IF persist THEN job_results \cup {job.id} ELSE job_results
    /\ wrk' = [wrk EXCEPT ![w].pc = "delete_job", ![w].ret = <<>>,
                          ![w].result = <<job>>]
    /\ UNCHANGED <<now, schedule_vars, tasks, jobs, results_read, job_seq>>
    /\ Quiet

\* the delete_one of the job; with nothing deleted the call returns
release_job_delete(w) ==
    /\ wrk[w].pc = "delete_job"
    /\ LET job == wrk[w].result[1]
       IN /\ jobs' = DeleteJob(jobs, job.id, w)
          /\ LET deleted_count == Cardinality(DOMAIN jobs) - Cardinality(DOMAIN jobs')
             IN wrk' = [wrk EXCEPT ![w] =
                          IF DecrementDue(deleted_count)
                          THEN [wrk[w] EXCEPT !.pc = "decrement", !.i = deleted_count]
                          ELSE [IdleWorker EXCEPT !.held = wrk[w].held \ {job}]]
    /\ UNCHANGED <<now, schedule_vars, tasks, job_results, results_read, job_seq>>
    /\ Quiet

\* the find_one_and_update that takes deleted_count off running_jobs
release_job_decrement(w) ==
    /\ wrk[w].pc = "decrement"
    /\ LET job == wrk[w].result[1]
       IN /\ tasks' = IncRunningJobs(tasks, job.task_id, 0 - wrk[w].i)
          /\ wrk' = [wrk EXCEPT ![w] = [IdleWorker EXCEPT !.held = wrk[w].held \ {job}]]
    /\ UNCHANGED <<now, schedule_vars, jobs, job_results, results_read, job_seq>>
    /\ Quiet

\* get_job_result(job_id): find_one_and_delete; results_read counts the calls
\* that returned a result
get_job_result(job_id) ==
    /\ job_id \in job_results
    /\ job_results' = job_results \ {job_id}
    /\ results_read' = [results_read EXCEPT ![job_id] = Min(@ + 1, 2)]
    /\ UNCHANGED <<now, schedule_vars, tasks, jobs, wrk, job_seq>>
    /\ Quiet

Tick ==
    /\ now < MaxTime
    /\ now' = now + 1
    /\ UNCHANGED <<schedule_vars, job_vars>>
    /\ Quiet

\* no worker (no scheduler) is inside a call: the guard on the start of a
\* call in the harnesses whose calls run one after the other (the clock moves
\* at any time, also inside a call)
WorkersIdle == \A w \in Workers : wrk[w].pc = "idle"
SchedulersIdle == \A s \in DOMAIN sch : sch[s].pc = "idle"

\* ------------------------------------------------------------------ specifications
Init ==
    /\ now = 1
    /\ tasks = <<>>
    /\ schedules = <<>>
    /\ jobs = <<>>
    /\ job_results = {}
    /\ sch = [s \in Schedulers |-> IdleScheduler]
    /\ wrk = [w \in Workers |-> IdleWorker]
    /\ results_read = [j \in JobIds |-> 0]
    /\ job_seq = 0
    /\ events = <<>>
    /\ raised = NoError

\* the store with its schedulers and workers, every store call a step
Next ==
    \/ Tick
    \/ \E s \in Schedulers, id \in ScheduleIds, t \in FireTimes, p \in ConflictPolicies :
          add_schedule(s, id, t, "t1", p)
    \/ \E s \in Schedulers : add_schedule_replace_one(s)
    \/ \E s \in Schedulers, ids \in SUBSET ScheduleIds : remove_schedules_find(s, ids)
    \/ \E s \in Schedulers : remove_schedules_delete_many(s)
    \/ \E s \in Schedulers, limit \in Limits : acquire_schedules_begin(s, limit)
    \/ \E s \in Schedulers : acquire_schedules_filter(s)
    \/ \E s \in Schedulers : acquire_schedules_find(s)
    \/ \E s \in Schedulers : acquire_schedules_now(s)
    \/ \E s \in Schedulers : acquire_schedules_update(s)
    \/ \E s \in Schedulers : release_schedules_begin(s)
    \/ \E s \in Schedulers, t \in FireTimes \cup {None}, trigger \in {"t2", BadTrigger} :
          release_schedules_bulk_write(s, t, trigger)
    \/ \E t \in TaskIds, cap \in Caps : add_task(t, cap)
    \/ \E t \in TaskIds : remove_task(t)
    \/ \E t \in DOMAIN tasks, delay \in {None, LongDelay} : add_job(t, delay)
    \/ \E w \in Workers, limit \in Limits, ignored \in SUBSET TaskIds :
          acquire_jobs_begin(w, limit, ignored)
    \/ \E w \in Workers : acquire_jobs_find(w)
    \/ \E w \in Workers : acquire_jobs_task_limits(w)
    \/ \E w \in Workers : acquire_jobs_filter(w)
    \/ \E w \in Workers : acquire_jobs_stamp(w)
    \/ \E w \in Workers : acquire_jobs_increment(w)
    \/ \E w \in Workers, persist \in BOOLEAN : \E job \in wrk[w].held :
          release_job_insert_result(w, job, persist)
    \/ \E w \in Workers : release_job_delete(w)
    \/ \E w \in Workers : release_job_decrement(w)
    \/ \E j \in JobIds : get_job_result(j)

Spec == Init /\ [][Next]_vars

\* the schedulers against the schedules collection: both acquire and
\* release, A adds and B removes
ScheduleNext ==
    \/ Tick
    \/ \E id \in ScheduleIds, t \in FireTimes, p \in ConflictPolicies :
          add_schedule("A", id, t, "t1", p)
    \/ add_schedule_replace_one("A")
    \/ \E ids \in SUBSET ScheduleIds : remove_schedules_find("B", ids)
    \/ remove_schedules_delete_many("B")
    \/ \E s \in Schedulers, limit \in Limits : acquire_schedules_begin(s, limit)
    \/ \E s \in Schedulers : acquire_schedules_filter(s)
    \/ \E s \in Schedulers : acquire_schedules_find(s)
    \/ \E s \in Schedulers : acquire_schedules_now(s)
    \/ \E s \in Schedulers : acquire_schedules_update(s)
    \/ \E s \in Schedulers : release_schedules_begin(s)
    \/ \E s \in Schedulers, t \in FireTimes \cup {None}, trigger \in {"t2", BadTrigger} :
          release_schedules_bulk_write(s, t, trigger)

ScheduleSpec == Init /\ [][ScheduleNext]_vars

\* schedules of several due times (None: a schedule with no run left) that
\* are added, replaced and removed (by scheduler A) and acquired; every call
\* runs to completion before the next one starts
ScheduleSeqNext ==
    \/ Tick
    \/ /\ SchedulersIdle
       /\ \E id \in ScheduleIds, t \in DueTimes \cup {None}, p \in ConflictPolicies :
             add_schedule("A", id, t, "t1", p)
    \/ add_schedule_replace_one("A")
    \/ SchedulersIdle /\ \E ids \in SUBSET ScheduleIds : remove_schedules_find("A", ids)
    \/ remove_schedules_delete_many("A")
    \/ SchedulersIdle /\ \E s \in Schedulers, limit \in Limits : acquire_schedules_begin(s, limit)
    \/ \E s \in Schedulers : acquire_schedules_filter(s)
    \/ \E s \in Schedulers : acquire_schedules_find(s)
    \/ \E s \in Schedulers : acquire_schedules_now(s)
    \/ \E s \in Schedulers : acquire_schedules_update(s)

ScheduleSeqSpec == Init /\ [][ScheduleSeqNext]_vars

\* releases against re-acquisition: schedules S1 and S2 were due at 0 and
\* scheduler A has acquired both at time 1
ReleaseInit ==
    /\ now = 1
    /\ tasks = <<>>
    /\ schedules = [x \in ScheduleIds |->
                       [next_fire_time |-> 0, trigger |-> Serialize("t1"),
                        acquired_by |-> "A", acquired_until |-> 1 + LockExpirationDelay]]
    /\ jobs = <<>>
    /\ job_results = {}
    /\ sch = [s \in Schedulers |->
                 IF s = "A" THEN [IdleScheduler EXCEPT !.held = <<"S1", "S2">>]
                 ELSE IdleScheduler]
    /\ wrk = [w \in Workers |-> IdleWorker]
    /\ results_read = [j \in JobIds |-> 0]
    /\ job_seq = 0
    /\ events = <<>>
    /\ raised = NoError

ReleaseNext ==
    \/ Tick
    \/ \E limit \in Limits : acquire_schedules_begin("B", limit)
    \/ acquire_schedules_filter("B")
    \/ acquire_schedules_find("B")
    \/ acquire_schedules_now("B")
    \/ acquire_schedules_update("B")
    \/ \E ids \in SUBSET ScheduleIds : remove_schedules_find("B", ids)
    \/ remove_schedules_delete_many("B")
    \/ \E s \in Schedulers : release_schedules_begin(s)
    \/ \E s \in Schedulers, t \in DueTimes \cup {None}, trigger \in {"t2", BadTrigger} :
          release_schedules_bulk_write(s, t, trigger)

ReleaseSpec == ReleaseInit /\ [][ReleaseNext]_vars

\* a release_schedules call of scheduler A against acquire_schedules calls of
\* a second process that uses A's id: schedules S1 and S2 were due at 0 and
\* A has acquired both at time 1
ReissueInit ==
    /\ now = 1
    /\ tasks = <<>>
    /\ schedules = [x \in ScheduleIds |->
                       [next_fire_time |-> 0, trigger |-> Serialize("t1"),
                        acquired_by |-> "A", acquired_until |-> 1 + LockExpirationDelay]]
    /\ jobs = <<>>
    /\ job_results = {}
    /\ sch = [s \in {"A", SecondA} |->
                 IF s = "A" THEN [IdleScheduler EXCEPT !.held = <<"S1", "S2">>]
                 ELSE IdleScheduler]
    /\ wrk = [w \in Workers |-> IdleWorker]
    /\ results_read = [j \in JobIds |-> 0]
    /\ job_seq = 0
    /\ events = <<>>
    /\ raised = NoError

ReissueNext ==
    \/ Tick
    \/ \E limit \in Limits : acquire_schedules_begin(SecondA, limit)
    \/ acquire_schedules_filter(SecondA)
    \/ acquire_schedules_find(SecondA)
    \/ acquire_schedules_now(SecondA)
    \/ acquire_schedules_update(SecondA)
    \/ release_schedules_begin("A")
    \/ \E t \in DueTimes \cup {None}, trigger \in {"t2", BadTrigger} :
          release_schedules_bulk_write("A", t, trigger)

ReissueSpec == ReissueInit /\ [][ReissueNext]_vars

\* a single-threaded harness on tasks and jobs: every operation runs to
\* completion before the next one starts.  Jobs are added for stored tasks
\* (the scheduler looks the task up first); T1 takes any limit, T2 has none.
JobSeqNext ==
    \/ Tick
    \/ WorkersIdle /\ \E cap \in Caps : add_task("T1", cap)
    \/ WorkersIdle /\ add_task("T2", None)
    \/ WorkersIdle /\ \E t \in DOMAIN tasks : add_job(t, None)
    \/ /\ WorkersIdle
       /\ \E w \in Workers, limit \in Limits, ignored \in SUBSET TaskIds :
             acquire_jobs_begin(w, limit, ignored)
    \/ \E w \in Workers : acquire_jobs_find(w)
    \/ \E w \in Workers : acquire_jobs_task_limits(w)
    \/ \E w \in Workers : acquire_jobs_filter(w)
    \/ \E w \in Workers : acquire_jobs_stamp(w)
    \/ \E w \in Workers : acquire_jobs_increment(w)
    \/ /\ WorkersIdle
       /\ \E w \in Workers : \E job \in wrk[w].held : release_job_insert_result(w, job, FALSE)
    \/ \E w \in Workers : release_job_delete(w)
    \/ \E w \in Workers : release_job_decrement(w)

JobSeqSpec == Init /\ [][JobSeqNext]_vars

\* a task that is added, removed and added again while its jobs run; every
\* operation runs to completion
TaskNext ==
    \/ Tick
    \/ WorkersIdle /\ add_task("T1", None)
    \/ WorkersIdle /\ remove_task("T1")
    \/ WorkersIdle /\ \E t \in DOMAIN tasks : add_job(t, None)
    \/ WorkersIdle /\ \E w \in Workers, limit \in Limits : acquire_jobs_begin(w, limit, {})
    \/ \E w \in Workers : acquire_jobs_find(w)
    \/ \E w \in Workers : acquire_jobs_task_limits(w)
    \/ \E w \in Workers : acquire_jobs_filter(w)
    \/ \E w \in Workers : acquire_jobs_stamp(w)
    \/ \E w \in Workers : acquire_jobs_increment(w)
    \/ /\ WorkersIdle
       /\ \E w \in Workers : \E job \in wrk[w].held : release_job_insert_result(w, job, FALSE)
    \/ \E w \in Workers : release_job_delete(w)
    \/ \E w \in Workers : release_job_decrement(w)

TaskSpec == Init /\ [][TaskNext]_vars

\* the scenario of two jobs of a task limited to one running job: task T1
\* with max_running_jobs = 1 and running_jobs = 0, jobs 1 (older) and 2
ScenarioInit ==
    /\ now = 1
    /\ tasks = [t \in {"T1"} |-> [max_running_jobs |-> 1, running_jobs |-> 0]]
    /\ schedules = <<>>
    /\ \E delay \in [{1, 2} -> {None, LongDelay}] :
          jobs = [j \in {1, 2} |-> [task_id |-> "T1", created_at |-> j,
                                    lock_expiration_delay |-> delay[j],
                                    acquired_by |-> NoOwner, acquired_until |-> None,
                                    started_at |-> None]]
    /\ job_results = {}
    /\ sch = [s \in Schedulers |-> IdleScheduler]
    /\ wrk = [w \in Workers |-> IdleWorker]
    /\ results_read = [j \in JobIds |-> 0]
    /\ job_seq = 2
    /\ events = <<>>
    /\ raised = NoError

\* the calls of the scenario run one after the other
ScenarioNext ==
    \/ Tick
    \/ /\ WorkersIdle
       /\ \E w \in Workers, limit \in Limits, ignored \in SUBSET {"T2"} :
             acquire_jobs_begin(w, limit, ignored)
    \/ \E w \in Workers : acquire_jobs_find(w)
    \/ \E w \in Workers : acquire_jobs_task_limits(w)
    \/ \E w \in Workers : acquire_jobs_filter(w)
    \/ \E w \in Workers : acquire_jobs_stamp(w)
    \/ \E w \in Workers : acquire_jobs_increment(w)
    \/ /\ WorkersIdle
       /\ \E w \in Workers : \E job \in wrk[w].held : release_job_insert_result(w, job, FALSE)
    \/ \E w \in Workers : release_job_delete(w)
    \/ \E w \in Workers : release_job_decrement(w)

ScenarioSpec == ScenarioInit /\ [][ScenarioNext]_vars

\* acquire_jobs rounds that race, one store call at a time: task T1 with
\* max_running_jobs = RaceCap and running_jobs = 0, RaceJobs pending jobs, and
\* every worker in at most one round that leases jobs
RaceInit ==
    /\ now = 1
    /\ tasks = [t \in {"T1"} |-> [max_running_jobs |-> RaceCap, running_jobs |-> 0]]
    /\ schedules = <<>>
    /\ jobs = [j \in 1..RaceJobs |-> [task_id |-> "T1", created_at |-> j,
                                       lock_expiration_delay |-> None,
                                       acquired_by |-> NoOwner, acquired_until |-> None,
                                       started_at |-> None]]
    /\ job_results = {}
    /\ sch = [s \in Schedulers |-> IdleScheduler]
    /\ wrk = [w \in Workers |-> IdleWorker]
    /\ results_read = [j \in JobIds |-> 0]
    /\ job_seq = RaceJobs
    /\ events = <<>>
    /\ raised = NoError

RaceNext ==
    \/ \E w \in Workers, limit \in Limits :
          wrk[w].held = {} /\ acquire_jobs_begin(w, limit, {})
    \/ \E w \in Workers : acquire_jobs_find(w)
    \/ \E w \in Workers : acquire_jobs_task_limits(w)
    \/ \E w \in Workers : acquire_jobs_filter(w)
    \/ \E w \in Workers : acquire_jobs_stamp(w)
    \/ \E w \in Workers : acquire_jobs_increment(w)

RaceSpec == RaceInit /\ [][RaceNext]_vars

\* jobs, their results and the readers of the results; the calls run one
\* after the other
ResultNext ==
    \/ Tick
    \/ WorkersIdle /\ add_task("T2", None)
    \/ WorkersIdle /\ \E t \in DOMAIN tasks : add_job(t, None)
    \/ WorkersIdle /\ \E w \in Workers, limit \in Limits : acquire_jobs_begin(w, limit, {})
    \/ \E w \in Workers : acquire_jobs_find(w)
    \/ \E w \in Workers : acquire_jobs_task_limits(w)
    \/ \E w \in Workers : acquire_jobs_filter(w)
    \/ \E w \in Workers : acquire_jobs_stamp(w)
    \/ \E w \in Workers : acquire_jobs_increment(w)
    \/ /\ WorkersIdle
       /\ \E w \in Workers, persist \in BOOLEAN : \E job \in wrk[w].held :
             release_job_insert_result(w, job, persist)
    \/ \E w \in Workers : release_job_delete(w)
    \/ \E w \in Workers : release_job_decrement(w)
    \/ WorkersIdle /\ \E j \in JobIds : get_job_result(j)

ResultSpec == Init /\ [][ResultNext]_vars

\* ------------------------------------------------------------------ claims
\* an unexpired lease of an owner other than p
LeasedByOther(doc, p, t) ==
    /\ doc.acquired_by \notin {NoOwner, p}
    /\ doc.acquired_until # None
    /\ doc.acquired_until >= t

\* C1: lease exclusivity of schedules.  Whenever acquire_schedules returns a
\* schedule to a scheduler (its update_many is the last step of the call), the
\* schedule does not at that moment hold an unexpired lease of another
\* scheduler: a second owner receives it only after acquired_until has passed.
C1_ScheduleLeaseExclusive ==
    [][\A s \in Schedulers : \A x \in DOMAIN schedules :
          (acquire_schedules_update(s) /\ x \in Range(sch[s].held))
              => ~LeasedByOther(schedules[x], s, now)]_vars

\* C2: lease exclusivity of jobs.  No job is returned to two workers within
\* one lease window: two workers never hold the same job at the same instant
\* (under RaceSpec no lease expires and no job is released).
C2_JobLeaseExclusive ==
    \A w1, w2 \in Workers :
        w1 # w2 => {job.id : job \in wrk[w1].held} \cap {job.id : job \in wrk[w2].held} = {}

\* C5: a release_schedules write by a scheduler s leaves alone every schedule
\* of the call that another scheduler has re-acquired: the record stays, with
\* the newer holder's acquired_by and acquired_until and its next_fire_time and
\* trigger.
C5_StaleReleaseKeepsSchedule ==
    [][\A s \in Schedulers : \A x \in DOMAIN schedules :
          (/\ \E t \in FireTimes \cup {None}, trigger \in {"t2", BadTrigger} :
                 release_schedules_bulk_write(s, t, trigger)
           /\ \E k \in 1..sch[s].i : sch[s].held[k] = x
           /\ schedules[x].acquired_by \notin {NoOwner, s})
              => (x \in DOMAIN schedules' /\ schedules'[x] = schedules[x])]_vars

\* C5 witness: scheduler s is in a release_schedules call whose first write,
\* carrying the request for x, is done; x is leased to another scheduler and
\* is as that scheduler acquired it
C5_Witness ==
    \E s \in Schedulers : \E x \in DOMAIN schedules :
        /\ sch[s].pc = "release" /\ sch[s].i = 2
        /\ sch[s].held[1] = x
        /\ LeasedByOther(schedules[x], s, now)
        /\ schedules[x].trigger = Serialize("t1")

\* the number of jobs of task t in coll that hold an unexpired lease at time
LeasedJobs(coll, t, time) ==
    Cardinality({j \in DOMAIN coll :
        /\ coll[j].task_id = t
        /\ coll[j].acquired_until # None
        /\ coll[j].acquired_until >= time})

\* C3: in the single-threaded harness the jobs of a task with
\* max_running_jobs = N that hold an unexpired lease are never more than N.
\* Stated for the states the claim is about: an acquire_jobs call that
\* returns a job of a limited task leaves at most N jobs of the task leased.
C3_CeilingSequential ==
    [][\A w \in Workers :
          (acquire_jobs_increment(w) /\ wrk'[w].pc = "idle") =>
              \A t \in DOMAIN tasks' :
                  (/\ tasks'[t].max_running_jobs # None
                   /\ \E j \in Range(wrk'[w].ret) : jobs'[j].task_id = t)
                      => LeasedJobs(jobs', t, now') <= tasks'[t].max_running_jobs]_vars

\* C4: with k acquire_jobs rounds running concurrently against a task with
\* max_running_jobs = N, starting from running_jobs <= N, the jobs of the task
\* that hold an unexpired lease are at most N + (k - 1).
C4_SoftCeiling ==
    LeasedJobs(jobs, "T1", now) <= tasks["T1"].max_running_jobs + (Cardinality(Workers) - 1)

\* C6: release_job by a worker whose lease on the job has expired and that
\* another worker has re-acquired leaves the job record as it is, and returns
\* without a decrement of running_jobs.
C6_StaleReleaseKeepsJob ==
    [][\A w \in Workers :
          release_job_delete(w) =>
              LET job == wrk[w].result[1]
              IN (job.id \in DOMAIN jobs /\ LeasedByOther(jobs[job.id], w, now))
                    => (/\ job.id \in DOMAIN jobs'
                        /\ jobs'[job.id] = jobs[job.id]
                        /\ wrk'[w].pc = "idle")]_vars

\* C7: a job whose lease has expired (its holder never released it) is
\* admitted by the next acquire_jobs of another worker whose find returned
\* it, whether or not the task is limited.
C7_ExpiredLeaseReacquired ==
    [][\A w \in Workers :
          acquire_jobs_filter(w) =>
              \A i \in 1..Len(wrk[w].docs) :
                  LET j == wrk[w].docs[i].id
                  IN (/\ j \in DOMAIN jobs
                      /\ jobs[j].acquired_by \notin {NoOwner, w}
                      /\ jobs[j].acquired_until < now)
                        => \E k \in 1..Len(wrk'[w].acquired_jobs) :
                              wrk'[w].acquired_jobs[k].id = j]_vars

\* C8: task T1 with max_running_jobs = 1, jobs 1 (older) and 2.  While job 1
\* is pending and running_jobs is 0, acquire_jobs admits job 1 alone and
\* returns it with running_jobs at 1; until job 1 is completed every
\* acquire_jobs returns nothing and leaves job 2 unleased; once release_job
\* has completed job 1 (running_jobs back to 0) acquire_jobs admits job 2.
C8_OneRunningJob ==
    [][\A w \in Workers :
          /\ acquire_jobs_filter(w) =>
                LET admitted == JobIdsOf(wrk'[w].acquired_jobs)
                    running == tasks["T1"].running_jobs
                IN /\ (1 \in DOMAIN jobs /\ running = 0) => admitted = <<1>>
                   /\ (1 \in DOMAIN jobs /\ running = 1)
                          => (/\ wrk'[w].pc = "idle" /\ wrk'[w].ret = <<>>
                              /\ 2 \in DOMAIN jobs' /\ jobs'[2].acquired_by = NoOwner)
                   /\ (1 \notin DOMAIN jobs /\ 2 \in DOMAIN jobs /\ running = 0)
                          => admitted = <<2>>
          /\ (acquire_jobs_increment(w) /\ wrk'[w].pc = "idle") =>
                /\ wrk'[w].ret = JobIdsOf(wrk[w].acquired_jobs)
                /\ tasks'["T1"].running_jobs = 1
                /\ \A j \in Range(wrk'[w].ret) : jobs'[j].acquired_by = w]_vars

\* C8 witness: job 1 was completed and job 2 is the job the last acquire_jobs
\* of a worker returned
C8_Witness ==
    /\ 1 \notin DOMAIN jobs
    /\ 2 \in DOMAIN jobs
    /\ tasks["T1"].running_jobs = 1
    /\ \E w \in Workers : wrk[w].ret = <<2>> /\ jobs[2].acquired_by = w

\* the jobs an acquire_jobs(limit, ignored) whose query was built at time t
\* may take: unleased or with a lease expired at t, of a task that is not
\* ignored
Eligible(t, ignored) ==
    {j \in DOMAIN jobs : /\ jobs[j].acquired_until = None \/ jobs[j].acquired_until < t
                         /\ jobs[j].task_id \notin ignored}

\* the limit oldest of them
Oldest(t, limit, ignored) ==
    {j \in Eligible(t, ignored) :
        Cardinality({k \in Eligible(t, ignored) :
                        jobs[k].created_at < jobs[j].created_at}) < limit}

\* every limited task the documents refer to has, by the task limits read, a
\* free slot for each of its jobs among them
EnoughSlots(documents, job_slots_left) ==
    \A t \in DOMAIN job_slots_left :
        job_slots_left[t] >= Cardinality({i \in 1..Len(documents) : documents[i].task_id = t})

\* C9: acquire_jobs finds exactly the limit oldest jobs that are unleased or
\* lease-expired and not of an ignored task, in ascending created_at order;
\* with enough free slots in every task it admits all of them, and it returns
\* the jobs it admitted in that order.
C9_FifoAdmission ==
    [][\A w \in Workers :
          /\ acquire_jobs_find(w) =>
                LET found == JobIdsOf(wrk'[w].docs)
                    oldest == Oldest(wrk[w].tq, wrk[w].limit, wrk[w].ignored_tasks)
                IN /\ Range(found) = oldest
                   /\ Len(found) = Cardinality(oldest)
                   /\ \A i, k \in 1..Len(found) :
                          i < k => jobs[found[i]].created_at < jobs[found[k]].created_at
          /\ (acquire_jobs_filter(w) /\ EnoughSlots(wrk[w].docs, wrk[w].job_slots_left))
                => JobIdsOf(wrk'[w].acquired_jobs) = JobIdsOf(wrk[w].docs)
          /\ (acquire_jobs_increment(w) /\ wrk'[w].pc = "idle")
                => LET ret == wrk'[w].ret
                   IN /\ ret = JobIdsOf(wrk[w].acquired_jobs)
                      /\ \A i, k \in 1..Len(ret) :
                            i < k => jobs[ret[i]].created_at < jobs[ret[k]].created_at]_vars

\* C9 witness: an acquire_jobs call returned two jobs, one of them of the
\* limited task, and both are leased to the caller
C9_Witness ==
    \E w \in Workers :
        /\ Len(wrk[w].ret) = 2
        /\ \A i \in 1..2 : /\ wrk[w].ret[i] \in DOMAIN jobs
                            /\ jobs[wrk[w].ret[i]].acquired_by = w
        /\ jobs[wrk[w].ret[1]].created_at < jobs[wrk[w].ret[2]].created_at

\* C10: job results are single-use: for every job id at most one
\* get_job_result call returns a result.
C10_ResultSingleUse ==
    \A j \in JobIds : results_read[j] <= 1

\* C11: add_schedule with an id that exists and a policy other than replace
\* leaves the stored schedules as they are and publishes no event; with the
\* exception policy the caller gets ConflictingIdError, with do_nothing the
\* call returns normally.
C11_ConflictLeavesRecord ==
    [][\A s \in Schedulers, id \in ScheduleIds, t \in DueTimes \cup {None},
          p \in ConflictPolicies \ {"replace"} :
          (add_schedule(s, id, t, "t1", p) /\ id \in DOMAIN schedules)
              => /\ schedules' = schedules
                 /\ events' = <<>>
                 /\ p = "exception" => raised' = "ConflictingIdError"
                 /\ p = "do_nothing" => raised' = "NoError"
                 /\ sch'[s].pc = "idle"]_vars

\* C11 witness: an add_schedule has just raised ConflictingIdError, and a
\* stored schedule holds a lease (the record the call left alone)
C11_Witness ==
    /\ raised = "ConflictingIdError"
    /\ events = <<>>
    /\ \E x \in DOMAIN schedules : schedules[x].acquired_by # NoOwner

\* C12: add_schedule publishes one event per write.  The insert of a new id
\* stores the schedule and publishes one ScheduleAdded; with an id that exists
\* the insert publishes nothing, and under replace the replace_one stores the
\* new schedule and publishes one ScheduleUpdated with the new next_fire_time.
C12_OneEventPerWrite ==
    [][/\ \A s \in Schedulers, id \in ScheduleIds, t \in DueTimes \cup {None},
             p \in ConflictPolicies :
             add_schedule(s, id, t, "t1", p) =>
                IF id \notin DOMAIN schedules
                THEN /\ id \in DOMAIN schedules'
                     /\ schedules'[id] = [next_fire_time |-> t,
                                          trigger |-> <<"serialized", "t1">>,
                                          acquired_by |-> NoOwner, acquired_until |-> None]
                     /\ events' = <<[type |-> "ScheduleAdded", schedule_id |-> id,
                                     next_fire_time |-> t]>>
                ELSE /\ events' = <<>>
                     /\ (p = "replace") = (sch'[s].pc = "replace_one")
       /\ \A s \in Schedulers :
             add_schedule_replace_one(s) =>
                LET schedule == sch[s].document[1]
                IN /\ schedule.id \in DOMAIN schedules'
                   /\ schedules'[schedule.id] =
                         [next_fire_time |-> schedule.next_fire_time,
                          trigger |-> <<"serialized", schedule.trigger>>,
                          acquired_by |-> NoOwner, acquired_until |-> None]
                   /\ events' = <<[type |-> "ScheduleUpdated",
                                   schedule_id |-> schedule.id,
                                   next_fire_time |-> schedule.next_fire_time]>>]_vars

\* C12 witness: a replace has just overwritten a schedule with one that is
\* due at MaxDue, and the one event is the ScheduleUpdated with that time
C12_Witness ==
    \E x \in DOMAIN schedules :
        /\ events = <<[type |-> "ScheduleUpdated", schedule_id |-> x,
                       next_fire_time |-> MaxDue]>>
        /\ schedules[x].next_fire_time = MaxDue
        /\ schedules[x].trigger = <<"serialized", "t1">>

\* C13: the running_jobs counter of every stored task is never negative,
\* whatever add_task, remove_task, add_job, acquire_jobs and release_job calls
\* were made.
C13_RunningJobsNonNegative ==
    \A t \in DOMAIN tasks : tasks[t].running_jobs >= 0

\* C14: the counter is accurate: a task none of whose jobs remains stored,
\* and none of whose jobs a worker still has to complete, has running_jobs = 0
\* (also when a lease expired and the job was acquired again).
C14_CounterAccurate ==
    \A t \in DOMAIN tasks :
        (/\ \A j \in DOMAIN jobs : jobs[j].task_id # t
         /\ \A w \in Workers : \A job \in wrk[w].held : job.task_id # t)
            => tasks[t].running_jobs = 0

\* C17: acquire_jobs admits no job of a limited task without a free slot: when
\* the running_jobs it read is at or above max_running_jobs, no job of the
\* task is among the jobs it goes on to lease.
C17_NoSlotNoAdmission ==
    [][\A w \in Workers :
          acquire_jobs_filter(w) =>
              \A t \in DOMAIN wrk[w].job_slots_left :
                  wrk[w].job_slots_left[t] <= 0
                      => \A k \in 1..Len(wrk'[w].acquired_jobs) :
                            wrk'[w].acquired_jobs[k].task_id # t]_vars

\* C18: the lease stamps of a round and its running_jobs increment are one
\* step for the other rounds: whenever a round reads the task limits, the
\* running_jobs it reads covers every job that is stamped as leased.
C18_StampAndCountAtomic ==
    [][\A w \in Workers :
          acquire_jobs_task_limits(w) =>
              \A t \in DOMAIN tasks : tasks[t].running_jobs >= LeasedJobs(jobs, t, now)]_vars

\* C19: release_job for a job whose record is gone returns normally after
\* the delete and leaves the tasks (and the jobs) as they are; when the delete
\* removes the record, the decrement follows, and it takes one off the
\* running_jobs of the job's task and changes no other counter.
C19_DecrementOnlyOnDelete ==
    [][\A w \in Workers :
          /\ release_job_delete(w) =>
                LET job == wrk[w].result[1]
                IN /\ raised' = "NoError"
                   /\ tasks' = tasks
                   /\ IF job.id \notin DOMAIN jobs
                      THEN jobs' = jobs /\ wrk'[w].pc = "idle"
                      ELSE job.id \notin DOMAIN jobs' /\ wrk'[w].pc = "decrement"
          /\ release_job_decrement(w) =>
                LET job == wrk[w].result[1]
                IN /\ raised' = "NoError"
                   /\ wrk'[w].pc = "idle"
                   /\ DOMAIN tasks' = DOMAIN tasks
                   /\ \A t \in DOMAIN tasks :
                         tasks'[t].running_jobs =
                            tasks[t].running_jobs - (IF t = job.task_id THEN 1 ELSE 0)]_vars

\* C19 witness: the result of a job was stored by a release and read, and a
\* second release of the job, which found no job record, has stored a result
\* again and returned; the counter kept the value the first release left
C19_Witness ==
    \E j \in JobIds :
        /\ WorkersIdle
        /\ results_read[j] = 1
        /\ j \in job_results
        /\ j \notin DOMAIN jobs
        /\ \A w \in Workers : wrk[w].held = {}
        /\ tasks["T2"].running_jobs = 1

\* the schedules an acquire_schedules call may take when it has read the
\* clock as t_fire for the due time and, after that, as t_lease for the
\* lease: with a next_fire_time in the past, and no lease or an expired one
Acquirable(t_fire, t_lease) ==
    {x \in DOMAIN schedules :
        /\ schedules[x].next_fire_time # None
        /\ schedules[x].next_fire_time < t_fire
        /\ schedules[x].acquired_by = NoOwner \/ schedules[x].acquired_until < t_lease}

\* C16: acquire_schedules(owner, limit) returns only schedules that are due
\* and hold no unexpired lease, by the clock as the call read it (the due
\* time by its first read, the lease by its second) and so also by the clock
\* at the find; it returns the up-to-limit such schedules with the earliest
\* next_fire_time, in ascending order, and stamps each with the owner and
\* now + the lease duration (now as read for the lease); a schedule another
\* owner's completed call has leased is not returned to a call that read the
\* clock before its acquired_until had passed.
C16_AcquireSchedules ==
    [][\A s \in Schedulers :
          /\ acquire_schedules_filter(s) =>
                sch[s].t_fire <= sch'[s].t_lease /\ sch'[s].t_lease = now
          /\ acquire_schedules_find(s) =>
                LET ret == sch'[s].held
                    may == Acquirable(sch[s].t_fire, sch[s].t_lease)
                    due(x) == schedules[x].next_fire_time
                IN /\ Range(ret) \subseteq may
                   /\ Range(ret) \subseteq Acquirable(now, now)
                   /\ Len(ret) = Min(sch[s].limit, Cardinality(may))
                   /\ \A i, k \in 1..Len(ret) :
                          i < k => ret[i] # ret[k] /\ due(ret[i]) <= due(ret[k])
                   /\ \A x \in may \ Range(ret) :
                          \A i \in 1..Len(ret) : due(ret[i]) <= due(x)
                   /\ \A x \in DOMAIN schedules :
                          LeasedByOther(schedules[x], s, sch[s].t_lease)
                             => x \notin Range(ret)
          /\ acquire_schedules_now(s) => sch'[s].t0 = now /\ sch'[s].held = sch[s].held
          /\ acquire_schedules_update(s) =>
                /\ sch'[s].held = sch[s].held
                /\ \A x \in Range(sch[s].held) :
                      /\ x \in DOMAIN schedules'
                      /\ schedules'[x].acquired_by = s
                      /\ schedules'[x].acquired_until = sch[s].t0 + LockExpirationDelay]_vars

\* C16 witness: a call has returned two schedules, the earlier due first,
\* both stamped for the caller
C16_Witness ==
    \E s \in Schedulers :
        /\ sch[s].pc = "idle"
        /\ Len(sch[s].held) = 2
        /\ Range(sch[s].held) \subseteq DOMAIN schedules
        /\ schedules[sch[s].held[1]].next_fire_time < schedules[sch[s].held[2]].next_fire_time
        /\ \A i \in 1..2 : /\ schedules[sch[s].held[i]].acquired_by = s
                            /\ schedules[sch[s].held[i]].acquired_until = now + LockExpirationDelay

\* C15: release_schedules publishes an event for a schedule only if the
\* write of its request took effect.  Stated for the last schedule of a call,
\* whose request is written once, by the last bulk_write: when that write
\* matches no record of the schedule (the record is gone, or is not the
\* caller's), the events published at the end hold none for the schedule.
C15_EventOnlyAfterWrite ==
    [][\A s \in Schedulers, t \in DueTimes \cup {None}, trigger \in {"t2", BadTrigger} :
          (/\ release_schedules_bulk_write(s, t, trigger)
           /\ sch[s].i = Len(sch[s].held))
              => LET x == sch[s].held[sch[s].i]
                 IN (x \notin DOMAIN schedules \/ schedules[x].acquired_by # s)
                       => \A k \in 1..Len(events') : events'[k].schedule_id # x]_vars

\* C20: a schedule released by its lease holder (acquired_by is the caller
\* when the turn of the schedule comes) is re-armed when its next_fire_time is
\* not None and its trigger serializes: the record stays, without lease
\* fields, with the new next_fire_time and trigger.  A schedule of the call
\* that is to be retired (no next_fire_time, or a trigger that does not
\* serialize) is not left stored and leased to the caller when the call ends,
\* and its ScheduleRemoved is published.
C20_RearmOrRetire ==
    [][\A s \in Schedulers, t \in DueTimes \cup {None}, trigger \in {"t2", BadTrigger} :
          release_schedules_bulk_write(s, t, trigger) =>
              LET i == sch[s].i
                  x == sch[s].held[i]
                  retire == t = None \/ trigger = "bad"
                  retired == {sch[s].held[k] : k \in {k \in 1..(i - 1) :
                                 sch[s].requests[k].op = "DeleteOne"}}
                             \cup (IF retire THEN {x} ELSE {})
              IN /\ (x \in DOMAIN schedules /\ schedules[x].acquired_by = s /\ ~retire)
                       => /\ x \in DOMAIN schedules'
                          /\ schedules'[x] =
                                [next_fire_time |-> t,
                                 trigger |-> <<"serialized", trigger>>,
                                 acquired_by |-> NoOwner, acquired_until |-> None]
                 /\ i = Len(sch[s].held)
                       => \A y \in retired :
                             /\ ~(y \in DOMAIN schedules' /\ schedules'[y].acquired_by = s)
                             /\ \E k \in 1..Len(events') :
                                   events'[k] = [type |-> "ScheduleRemoved", schedule_id |-> y,
                                                 next_fire_time |-> None]]_vars

\* C21: writing the gathered requests again at every turn of the loop is the
\* same as releasing every schedule once: a schedule of an earlier turn that
\* was re-armed (it has the released trigger) and has been acquired again
\* since (it holds a lease) is left as it is by the writes of the later turns.
C21_ReleasedOnce ==
    [][\A t \in DueTimes \cup {None}, trigger \in {"t2", BadTrigger} :
          release_schedules_bulk_write("A", t, trigger) =>
              \A k \in 1..(sch["A"].i - 1) :
                  LET x == sch["A"].held[k]
                  IN (/\ x \in DOMAIN schedules
                      /\ schedules[x].trigger = <<"serialized", "t2">>
                      /\ schedules[x].acquired_by # NoOwner)
                        => (x \in DOMAIN schedules' /\ schedules'[x] = schedules[x])]_vars

\* C22: an unexpired lease is ended by nobody but its owner's release or a
\* removal: the replace_one of an add_schedule and the acquire_schedules of
\* another scheduler leave acquired_by and acquired_until of a schedule that
\* holds another scheduler's unexpired lease as they are.
C22_LeaseKept ==
    [][\A s \in Schedulers :
          (add_schedule_replace_one(s) \/ acquire_schedules_update(s))
              => \A x \in DOMAIN schedules :
                    LeasedByOther(schedules[x], s, now)
                       => /\ x \in DOMAIN schedules'
                          /\ schedules'[x].acquired_by = schedules[x].acquired_by
                          /\ schedules'[x].acquired_until = schedules[x].acquired_until]_vars

====
